---- MODULE Spec2Model ----
(***************************************************************************)
(* Model of the concurrent query engine of evm_tx_checker (src/main.rs):   *)
(* the retry loops of get_last_txs_single_chain and get_last_txs_batch,    *)
(* the confirm_no_transaction fallback, the semaphore that admits tasks,   *)
(* the join/flatten step and the grouping of the flat result by chain.     *)
(*                                                                         *)
(* Strings of the source that are not ASCII are written with ASCII         *)
(* stand-ins; the original literal is given next to each.  A string the    *)
(* code slices or scans character by character (a hash, a timestamp) is    *)
(* ASCII in the model, so its length in bytes is its length in characters. *)
(***************************************************************************)
EXTENDS Integers, Sequences, FiniteSets, TLC

\* ---------------------------------------------------------------- bounds
MaxAddrs  == 2      \* addresses in the wallet list
MaxChains == 2      \* target chains taken from the head of DEFAULT_CHAINS
MaxK      == 2      \* largest concurrency ceiling tried
MaxTxs    == 2      \* transactions in one response of the remote
MaxTsLen  == 3      \* length of the enumerated timestamp strings

\* ------------------------------------------------------ program constants
MAX_RETRIES == 5
HASH_PREFIX_LEN == 12                   \* the &tx_hash[..12] of the progress lines
PAGE_SIZE_SINGLE == 1                   \* page_size of RpcParamsSingle
PAGE_SIZE_MULTI == 30                   \* page_size of RpcParamsMulti
DEFAULT_CHAINS == <<"eth", "bsc", "polygon", "arbitrum", "optimism", "avalanche">>

\* sentinels of QueryResult.tx_hash / tx_time
NO_TX        == "NO_TX"                 \* "无交易"
PARSE_FAILED == "PARSE_FAILED"          \* "解析失败"
NETWORK_ERR  == "NETWORK_ERROR"         \* "网络错误"
TIMED_OUT    == "TIMEOUT"               \* "超时"
NO_DATA      == "NO_DATA"               \* "无数据"
NA           == "N/A"
TIME_PARSE_FAILED == "TIME_PARSE_FAILED"   \* "时间解析失败"
TIME_FORMAT_ERROR == "TIME_FORMAT_ERROR"   \* "时间格式错误"

Sentinels == {NO_TX, PARSE_FAILED, NETWORK_ERR, TIMED_OUT, NO_DATA}
ErrorSentinels == {PARSE_FAILED, NETWORK_ERR, TIMED_OUT}

\* ------------------------------------------------------------- utilities
Range(s) == {s[i] : i \in 1..Len(s)}

SeqsUpTo(S, n) == UNION {[1..m -> S] : m \in 0..n}

RECURSIVE Flatten(_)
Flatten(ss) == IF ss = <<>> THEN <<>> ELSE Head(ss) \o Flatten(Tail(ss))

\* ------------------------------------------------------ format_timestamp
HexDigits == {"0","1","2","3","4","5","6","7","8","9",
              "a","b","c","d","e","f","A","B","C","D","E","F"}

Lower(c) == CASE c = "A" -> "a" [] c = "B" -> "b" [] c = "C" -> "c"
              [] c = "D" -> "d" [] c = "E" -> "e" [] c = "F" -> "f"
              [] OTHER -> c

\* hex_timestamp.starts_with("0x") ... &hex_timestamp[2..]
StripPrefix(s) ==
    IF Len(s) >= 2 /\ s[1] = "0" /\ s[2] = "x" THEN SubSeq(s, 3, Len(s)) ELSE s

\* u64::from_str_radix: one leading "+" is accepted when digits follow it
StripSign(s) == IF Len(s) >= 2 /\ s[1] = "+" THEN Tail(s) ELSE s

RECURSIVE StripZeros(_)
StripZeros(s) == IF s # <<>> /\ Head(s) = "0" THEN StripZeros(Tail(s)) ELSE s

U64_HEX_DIGITS == 16                    \* u64::MAX = 0xffff_ffff_ffff_ffff

\* Ok(ts) of u64::from_str_radix(_, 16): ts as its significant digits, lower case
ParsesAsU64(s) ==
    LET d == StripSign(s) IN
    /\ d # <<>>
    /\ \A i \in 1..Len(d) : d[i] \in HexDigits
    /\ Len(StripZeros(d)) <= U64_HEX_DIGITS

ParsedDigits(s) ==
    LET d == StripZeros(StripSign(s)) IN [i \in 1..Len(d) |-> Lower(d[i])]

HexVal(c) == CASE c = "0" -> 0 [] c = "1" -> 1 [] c = "2" -> 2 [] c = "3" -> 3
               [] c = "4" -> 4 [] c = "5" -> 5 [] c = "6" -> 6 [] c = "7" -> 7
               [] c = "8" -> 8 [] c = "9" -> 9 [] c = "a" -> 10 [] c = "b" -> 11
               [] c = "c" -> 12 [] c = "d" -> 13 [] c = "e" -> 14 [] c = "f" -> 15

\* a <= b for two digit strings of the same length
RECURSIVE DigitsLeq(_, _)
DigitsLeq(a, b) ==
    IF a = <<>> THEN TRUE
    ELSE IF HexVal(Head(a)) # HexVal(Head(b)) THEN HexVal(Head(a)) < HexVal(Head(b))
    ELSE DigitsLeq(Tail(a), Tail(b))

\* DateTime::from_timestamp(ts as i64, 0) is Some: ts is at most the last second
\* chrono represents (262142-12-31T23:59:59Z = 0x7779a0a6b7f); a ts of 2^63 or
\* more is negative as i64 and lies before chrono's first second.
CHRONO_MAX == <<"7","7","7","9","a","0","a","6","b","7","f">>

InChronoRange(d) ==
    \/ Len(d) < Len(CHRONO_MAX)
    \/ Len(d) = Len(CHRONO_MAX) /\ DigitsLeq(d, CHRONO_MAX)

RECURSIVE Concat(_)
Concat(d) == IF d = <<>> THEN "" ELSE Head(d) \o Concat(Tail(d))

\* local_dt.format("%Y-%m-%d %H:%M"): the display string of the instant ts
LocalDisplay(ts) == "local:" \o Concat(ts)

format_timestamp(hex_timestamp) ==
    LET timestamp_str == StripPrefix(hex_timestamp) IN
    IF ParsesAsU64(timestamp_str)
    THEN LET ts == ParsedDigits(timestamp_str) IN
         IF InChronoRange(ts) THEN LocalDisplay(ts) ELSE TIME_FORMAT_ERROR
    ELSE TIME_PARSE_FAILED

\* ------------------------------------------------------------ data model
QueryResult(address, tx_hash, tx_time, tx_chain) ==
    [address |-> address, tx_hash |-> tx_hash, tx_time |-> tx_time, tx_chain |-> tx_chain]

Transaction(hash, timestamp, blockchain) ==
    [hash |-> hash, timestamp |-> timestamp, blockchain |-> blockchain]

\* &tx_hash[..12] panics when the hash is shorter than 12 bytes
SliceOk(tx_hash) == Len(tx_hash) >= HASH_PREFIX_LEN

\* ------------------------------------------------------------ the remote
\* The transactions the remote can serve.  Hashes: two full ones on eth, one on
\* bsc, an empty one, one shorter than the 12 characters the progress line
\* slices, and a transaction of a chain outside every target list.
HASH_A == "0xaaaaaaaaaaaa"
HASH_B == "0xbbbbbbbbbbbb"
HASH_C == "0xcccccccccccc"
HASH_SHORT == "0xdead"
TS_1 == <<"0","x","5","f","5","e","1","0","0","0">>
TS_2 == <<"6","5","F","0">>
TS_BAD == <<"n","o","w">>

TxEthA    == Transaction(HASH_A, TS_1, "eth")
TxEthB    == Transaction(HASH_B, TS_2, "eth")
TxBscC    == Transaction(HASH_C, TS_1, "bsc")
TxEthNoHash == Transaction("", TS_1, "eth")
TxBscShort  == Transaction(HASH_SHORT, TS_BAD, "bsc")
TxOther   == Transaction(HASH_C, TS_2, "fantom")

TxPool == {TxEthA, TxEthB, TxBscC, TxEthNoHash, TxBscShort, TxOther}

\* outcome classes of one request (timeout / send error / body that does not parse /
\* result: null / result with a transaction list)
Faults == {"Timeout", "TransportError", "MalformedResponse"}
Kinds  == Faults \cup {"EmptyResult", "Ok"}

Outcome(kind, txs) == [kind |-> kind, txs |-> txs]

Min(a, b) == IF a <= b THEN a ELSE b

\* what a remote r (whether it is up, its transactions, the ways it can fail) may
\* answer to a request of the given pageSize: a failure, or, when it is up, a
\* page of at most page_size of its transactions
Outcomes(r, page_size) ==
    {Outcome(k, <<>>) : k \in r.faults}
        \cup IF r.up THEN {Outcome("Ok", txs) : txs \in SeqsUpTo(r.txs, Min(page_size, MaxTxs))}
                     ELSE {}

\* remotes of the runs with one task: one that serves every transaction of the
\* pool or a null result, one that fails in every way around two eth transactions
WorkerRemotes ==
    { [up |-> TRUE, txs |-> TxPool, faults |-> {"EmptyResult"}],
      [up |-> TRUE, txs |-> {TxEthA, TxEthNoHash}, faults |-> Faults \cup {"EmptyResult"}] }

\* remotes of the runs with several tasks: one that is down (every request times
\* out), and two that always answer, with nothing or with one transaction: a
\* short hash on bsc, a full hash on eth
CoarseRemotes ==
    { [up |-> FALSE, txs |-> {}, faults |-> {"Timeout"}],
      [up |-> TRUE, txs |-> {TxBscShort}, faults |-> {}],
      [up |-> TRUE, txs |-> {TxEthA}, faults |-> {}] }

\* wallet lists: the first n of these addresses, or the first address twice
WALLETS == <<"0xA1", "0xA2", "0xA3", "0xA4">>

AddressLists == {SubSeq(WALLETS, 1, n) : n \in 0..MaxAddrs} \cup {<<WALLETS[1], WALLETS[1]>>}

\* ----------------------------------------------------------------- state
VARIABLES
    query_mode,     \* "multi" | "single"
    concurrency,    \* the ceiling K of Semaphore::new(concurrency)
    addresses,      \* addresses_str, in input order
    target_chains,  \* target_chains, in configuration order
    remote,         \* what the remote can answer during this run
    permits,        \* permits available in the semaphore
    task,           \* spawned tasks: <<address index, round>> -> task state
    main_pc,        \* "query" | "group" | "report"
    round,          \* single mode: index of the chain being queried; multi mode: 0
    results,        \* the flat result list (query_results / all_results)
    join_errors,    \* tasks whose JoinHandle gave Err (the task panicked)
    grouped,        \* the grouped report: chain -> rows
    overtaken       \* history: a task has ended before a task spawned ahead of it

vars == <<query_mode, concurrency, addresses, target_chains, remote, permits,
          task, main_pc, round, results, join_errors, grouped, overtaken>>

config == <<query_mode, concurrency, addresses, target_chains, remote>>

N == Len(addresses)
C == Len(target_chains)

\* state of a task right after tokio::spawn: waiting at semaphore.acquire()
NewTask ==
    [pc       |-> "waiting",   \* waiting | request | sleep | confirm | done | panicked
     permit   |-> FALSE,       \* holds _permit
     attempt  |-> 0,           \* attempt of the retry loop
     seen     |-> {},          \* outcome kinds of the earlier attempts
     last     |-> Outcome("None", <<>>),   \* outcome of the latest attempt
     by_chain |-> <<>>,        \* by_chain of the batch task
     ci       |-> 1,           \* position of the per-chain loop in chains_clone
     confirms |-> <<>>,        \* calls of confirm_no_transaction: chain, outcome kind, txs
     results  |-> <<>>]        \* results (batch) / the returned Some(QueryResult)

Terminal(t) == t.pc \in {"done", "panicked"}

InitWith(modes, ks, addrLists, chainLists, remotes) ==
    /\ query_mode \in modes
    /\ concurrency \in ks
    /\ addresses \in addrLists
    /\ target_chains \in chainLists
    /\ remote \in remotes
    /\ permits = concurrency
    /\ task = <<>>
    /\ main_pc = "query"
    /\ round = IF query_mode = "single" THEN 1 ELSE 0
    /\ results = <<>>
    /\ join_errors = {}
    /\ grouped = <<>>
    /\ overtaken = FALSE

ChainLists == {SubSeq(DEFAULT_CHAINS, 1, n) : n \in 1..MaxChains}

Init == InitWith({"multi", "single"}, 0..MaxK, AddressLists, ChainLists, CoarseRemotes)

\* one worker alone, against the richer remotes
InitWorker == InitWith({"multi", "single"}, {1}, {<<WALLETS[1]>>}, ChainLists, WorkerRemotes)

\* ------------------------------------------------------- the worker's code
\* FaultSentinel with the sentinels of timeout and transport error exchanged
FaultSentinel_Swapped(kind) ==
    CASE kind = "Timeout" -> NETWORK_ERR
      [] kind = "TransportError" -> TIMED_OUT
      [] kind = "MalformedResponse" -> PARSE_FAILED

\* terminal sentinel of an error class (the tx_hash of the record pushed at the ceiling)
FaultSentinel(kind) ==
    CASE kind = "Timeout" -> TIMED_OUT
      [] kind = "TransportError" -> NETWORK_ERR
      [] kind = "MalformedResponse" -> PARSE_FAILED

\* one record with tx_hash = hash and tx_time = "N/A" for every chain of chains
Broadcast(addr, chains, hash) ==
    [i \in 1..Len(chains) |-> QueryResult(addr, hash, NA, chains[i])]

\* by_chain: the first transaction with a non-empty hash of every blockchain
RECURSIVE ByChainFrom(_, _)
ByChainFrom(txs, acc) ==
    IF txs = <<>> THEN acc
    ELSE LET tx == Head(txs) IN
         ByChainFrom(Tail(txs),
                     IF tx.hash # "" /\ tx.blockchain \notin DOMAIN acc
                     THEN acc @@ (tx.blockchain :> tx) ELSE acc)

\* by_chain filled with insert alone: the last transaction of a blockchain stays
RECURSIVE ByChainLastFrom(_, _)
ByChainLastFrom(txs, acc) ==
    IF txs = <<>> THEN acc
    ELSE LET tx == Head(txs) IN
         ByChainLastFrom(Tail(txs),
                         IF tx.hash # ""
                         THEN [c \in DOMAIN acc \cup {tx.blockchain} |->
                                  IF c = tx.blockchain THEN tx ELSE acc[c]]
                         ELSE acc)

ByChain_LastWins(txs) == ByChainLastFrom(txs, <<>>)

\* ByChain that files a transaction of a chain outside the target list under the
\* first target chain when that chain has no transaction of its own
ByChain_OffTargetFiled(txs) ==
    LET b == ByChainFrom(txs, <<>>)
        off == DOMAIN b \ Range(target_chains)
    IN  IF off # {} /\ target_chains[1] \notin DOMAIN b
        THEN b @@ (target_chains[1] :> b[CHOOSE c \in off : TRUE])
        ELSE b

ByChain(txs) == ByChainFrom(txs, <<>>)

\* confirm_no_transaction that answers "no transaction" whenever it finds none
confirm_no_transaction_Folded(out) ==
    IF out.kind = "Ok" /\ out.txs # <<>>
    THEN <<FALSE, out.txs[1].hash, format_timestamp(out.txs[1].timestamp)>>
    ELSE <<TRUE, NO_TX, NA>>

\* confirm_no_transaction, from the outcome of its one request: (is_empty, hash, time)
confirm_no_transaction(out) ==
    CASE out.kind = "Ok" /\ out.txs # <<>> ->
             <<FALSE, out.txs[1].hash, format_timestamp(out.txs[1].timestamp)>>
      [] out.kind = "Ok" /\ out.txs = <<>> -> <<TRUE, NO_TX, NA>>
      [] out.kind = "EmptyResult" -> <<TRUE, NO_TX, NA>>
      [] out.kind = "MalformedResponse" -> <<TRUE, PARSE_FAILED, NA>>
      [] out.kind = "TransportError" -> <<TRUE, NETWORK_ERR, NA>>
      [] out.kind = "Timeout" -> <<TRUE, TIMED_OUT, NA>>

\* the `for chain in &chains_clone` loop of a parsed batch response, from chain
\* t.ci on, up to its next suspension: the call of confirm_no_transaction for a
\* chain by_chain lacks, the panic of the progress line, or the end of the loop
RECURSIVE EmitFrom(_, _, _)
EmitFrom(t, addr, chains) ==
    IF t.ci > Len(chains) THEN [t EXCEPT !.pc = "done"]
    ELSE LET chain == chains[t.ci] IN
         IF chain \in DOMAIN t.by_chain
         THEN LET tx == t.by_chain[chain] IN
              IF ~SliceOk(tx.hash) THEN [t EXCEPT !.pc = "panicked"]
              ELSE EmitFrom([t EXCEPT
                               !.results = Append(@, QueryResult(addr, tx.hash,
                                                   format_timestamp(tx.timestamp), chain)),
                               !.ci = @ + 1],
                            addr, chains)
         ELSE [t EXCEPT !.pc = "confirm",
                        !.confirms = Append(@, [chain |-> chain, kind |-> "InFlight",
                                                txs |-> <<>>])]

\* BatchStep that tests the ceiling before it looks at the outcome: the last
\* attempt always ends in the sentinel of a network error
BatchStep_CeilingFirst(t, out, addr, chains) ==
    LET t1 == [t EXCEPT !.last = out] IN
    CASE t.attempt >= MAX_RETRIES ->
             [t1 EXCEPT !.pc = "done", !.results = Broadcast(addr, chains, NETWORK_ERR)]
      [] t.attempt < MAX_RETRIES /\ out.kind \in Faults -> [t1 EXCEPT !.pc = "sleep"]
      [] t.attempt < MAX_RETRIES /\ out.kind = "EmptyResult" ->
             [t1 EXCEPT !.pc = "done", !.results = Broadcast(addr, chains, NO_DATA)]
      [] t.attempt < MAX_RETRIES /\ out.kind = "Ok" ->
             EmitFrom([t1 EXCEPT !.by_chain = ByChain(out.txs), !.ci = 1], addr, chains)

\* BatchStep that, at the ceiling, asks chain by chain instead of broadcasting
BatchStep_PerChainAtCeiling(t, out, addr, chains) ==
    LET t1 == [t EXCEPT !.last = out] IN
    CASE out.kind \in Faults ->
             IF t.attempt < MAX_RETRIES
             THEN [t1 EXCEPT !.pc = "sleep"]
             ELSE EmitFrom([t1 EXCEPT !.by_chain = <<>>, !.ci = 1], addr, chains)
      [] out.kind = "EmptyResult" ->
             [t1 EXCEPT !.pc = "done", !.results = Broadcast(addr, chains, NO_DATA)]
      [] out.kind = "Ok" ->
             EmitFrom([t1 EXCEPT !.by_chain = ByChain(out.txs), !.ci = 1], addr, chains)

\* BatchStep without the `break` after a parsed response: below the ceiling a
\* response with transactions is followed by another attempt
BatchStep_RetryOnSuccess(t, out, addr, chains) ==
    LET t1 == [t EXCEPT !.last = out] IN
    CASE out.kind \in Faults ->
             IF t.attempt < MAX_RETRIES
             THEN [t1 EXCEPT !.pc = "sleep"]
             ELSE [t1 EXCEPT !.pc = "done",
                             !.results = Broadcast(addr, chains, FaultSentinel(out.kind))]
      [] out.kind = "EmptyResult" ->
             [t1 EXCEPT !.pc = "done", !.results = Broadcast(addr, chains, NO_DATA)]
      [] out.kind = "Ok" ->
             IF out.txs # <<>> /\ t.attempt < MAX_RETRIES
             THEN [t1 EXCEPT !.pc = "sleep"]
             ELSE EmitFrom([t1 EXCEPT !.by_chain = ByChain(out.txs), !.ci = 1], addr, chains)

\* the task body of get_last_txs_batch on the outcome of attempt t.attempt
BatchStep(t, out, addr, chains) ==
    LET t1 == [t EXCEPT !.last = out] IN
    CASE out.kind \in Faults ->
             IF t.attempt < MAX_RETRIES
             THEN [t1 EXCEPT !.pc = "sleep"]
             ELSE [t1 EXCEPT !.pc = "done",
                             !.results = Broadcast(addr, chains, FaultSentinel(out.kind))]
      [] out.kind = "EmptyResult" ->
             [t1 EXCEPT !.pc = "done", !.results = Broadcast(addr, chains, NO_DATA)]
      [] out.kind = "Ok" ->
             EmitFrom([t1 EXCEPT !.by_chain = ByChain(out.txs), !.ci = 1], addr, chains)

\* ConfirmStep that goes back to the retry loop when the fallback request failed
ConfirmStep_RetryBatchOnFailure(t, out, addr, chains) ==
    LET chain == chains[t.ci]
        r == confirm_no_transaction(out)
        t1 == [t EXCEPT !.confirms[Len(t.confirms)].kind = out.kind,
                        !.confirms[Len(t.confirms)].txs = out.txs]
    IN  IF out.kind \in Faults /\ t.attempt < MAX_RETRIES THEN [t1 EXCEPT !.pc = "sleep"]
        ELSE IF ~r[1] /\ ~SliceOk(r[2]) THEN [t1 EXCEPT !.pc = "panicked"]
        ELSE EmitFrom([t1 EXCEPT !.results = Append(@, QueryResult(addr, r[2], r[3], chain)),
                                 !.ci = @ + 1],
                      addr, chains)

\* the task body of get_last_txs_batch on the return of confirm_no_transaction
ConfirmStep(t, out, addr, chains) ==
    LET chain == chains[t.ci]
        r == confirm_no_transaction(out)
        t1 == [t EXCEPT !.confirms[Len(t.confirms)].kind = out.kind,
                        !.confirms[Len(t.confirms)].txs = out.txs]
    IN  IF ~r[1] /\ ~SliceOk(r[2]) THEN [t1 EXCEPT !.pc = "panicked"]
        ELSE EmitFrom([t1 EXCEPT !.results = Append(@, QueryResult(addr, r[2], r[3], chain)),
                                 !.ci = @ + 1],
                      addr, chains)

\* get_last_txs_single_chain that, at the ceiling, reports an error kind of an
\* earlier attempt when there is one that differs from the last
get_last_txs_single_chain_EarlierErrorKind(t, out, addr, chain) ==
    LET t1 == [t EXCEPT !.last = out]
        earlier == (t.seen \cap Faults) \ {out.kind}
        kind == IF earlier = {} THEN out.kind ELSE CHOOSE x \in earlier : TRUE
    IN
    CASE out.kind \in Faults ->
             IF t.attempt < MAX_RETRIES
             THEN [t1 EXCEPT !.pc = "sleep"]
             ELSE [t1 EXCEPT !.pc = "done",
                             !.results = <<QueryResult(addr, FaultSentinel(kind), NA, chain)>>]
      [] out.kind = "Ok" /\ out.txs # <<>> ->
             LET tx == out.txs[1] IN
             IF ~SliceOk(tx.hash) THEN [t1 EXCEPT !.pc = "panicked"]
             ELSE [t1 EXCEPT !.pc = "done",
                             !.results = <<QueryResult(addr, tx.hash,
                                              format_timestamp(tx.timestamp), chain)>>]
      [] OTHER ->
             IF t.attempt = 1
             THEN [t1 EXCEPT !.pc = "sleep"]
             ELSE [t1 EXCEPT !.pc = "done",
                             !.results = <<QueryResult(addr, NO_TX, NA, chain)>>]

\* get_last_txs_single_chain that accepts an empty answer at once on every attempt
get_last_txs_single_chain_NoReconfirm(t, out, addr, chain) ==
    LET t1 == [t EXCEPT !.last = out] IN
    CASE out.kind \in Faults ->
             IF t.attempt < MAX_RETRIES
             THEN [t1 EXCEPT !.pc = "sleep"]
             ELSE [t1 EXCEPT !.pc = "done",
                             !.results = <<QueryResult(addr, FaultSentinel(out.kind), NA, chain)>>]
      [] out.kind = "Ok" /\ out.txs # <<>> ->
             LET tx == out.txs[1] IN
             IF ~SliceOk(tx.hash) THEN [t1 EXCEPT !.pc = "panicked"]
             ELSE [t1 EXCEPT !.pc = "done",
                             !.results = <<QueryResult(addr, tx.hash,
                                              format_timestamp(tx.timestamp), chain)>>]
      [] OTHER -> [t1 EXCEPT !.pc = "done",
                             !.results = <<QueryResult(addr, NO_TX, NA, chain)>>]

\* get_last_txs_single_chain on the outcome of attempt t.attempt
get_last_txs_single_chain(t, out, addr, chain) ==
    LET t1 == [t EXCEPT !.last = out] IN
    CASE out.kind \in Faults ->
             IF t.attempt < MAX_RETRIES
             THEN [t1 EXCEPT !.pc = "sleep"]
             ELSE [t1 EXCEPT !.pc = "done",
                             !.results = <<QueryResult(addr, FaultSentinel(out.kind), NA, chain)>>]
      [] out.kind = "Ok" /\ out.txs # <<>> ->
             LET tx == out.txs[1] IN
             IF ~SliceOk(tx.hash) THEN [t1 EXCEPT !.pc = "panicked"]
             ELSE [t1 EXCEPT !.pc = "done",
                             !.results = <<QueryResult(addr, tx.hash,
                                              format_timestamp(tx.timestamp), chain)>>]
      [] OTHER ->
             IF t.attempt = 1
             THEN [t1 EXCEPT !.pc = "sleep"]
             ELSE [t1 EXCEPT !.pc = "done",
                             !.results = <<QueryResult(addr, NO_TX, NA, chain)>>]

\* DropPermit that releases on a panic only: a task that returns keeps the permit
DropPermit_KeptOnReturn(t) == IF t.pc = "panicked" THEN [t EXCEPT !.permit = FALSE] ELSE t

\* DropPermit that releases on return only: a panic keeps the permit
DropPermit_LeakOnPanic(t) == IF t.pc = "done" THEN [t EXCEPT !.permit = FALSE] ELSE t

\* the end of a task's future, by return or by the unwinding of a panic: _permit drops
DropPermit(t) == IF Terminal(t) THEN [t EXCEPT !.permit = FALSE] ELSE t

Released(old, new) == IF old.permit /\ ~new.permit THEN 1 ELSE 0

\* ---------------------------------------------------------------- actions
Spawned == {k \in DOMAIN task : k[2] = round}

\* get_last_txs_batch: tasks.push(tokio::spawn(..)) for the next address
SpawnBatchTask ==
    /\ query_mode = "multi" /\ main_pc = "query"
    /\ Cardinality(Spawned) < N
    /\ task' = task @@ (<<Cardinality(Spawned) + 1, round>> :> NewTask)
    /\ UNCHANGED <<config, permits, main_pc, round, results, join_errors, grouped, overtaken>>

\* main, single mode: tasks.push(tokio::spawn(..)) for the next address of this chain
SpawnSingleTask ==
    /\ query_mode = "single" /\ main_pc = "query"
    /\ Cardinality(Spawned) < N
    /\ task' = task @@ (<<Cardinality(Spawned) + 1, round>> :> NewTask)
    /\ UNCHANGED <<config, permits, main_pc, round, results, join_errors, grouped, overtaken>>

\* Acquire without the wait for a free permit
Acquire_NoGate(k) ==
    /\ task[k].pc = "waiting"
    /\ permits' = permits - 1
    /\ task' = [task EXCEPT ![k].pc = "request", ![k].permit = TRUE, ![k].attempt = 1]
    /\ UNCHANGED <<config, main_pc, round, results, join_errors, grouped, overtaken>>

\* semaphore.acquire().await returns; the first request is sent
Acquire(k) ==
    /\ task[k].pc = "waiting"
    /\ permits > 0
    /\ permits' = permits - 1
    /\ task' = [task EXCEPT ![k].pc = "request", ![k].permit = TRUE, ![k].attempt = 1]
    /\ UNCHANGED <<config, main_pc, round, results, join_errors, grouped, overtaken>>

Step(k, new) ==
    /\ task' = [task EXCEPT ![k] = DropPermit(new)]
    /\ permits' = permits + Released(task[k], DropPermit(new))
    /\ overtaken' = (overtaken \/ (Terminal(new) /\ \E j \in Spawned :
                                        j[1] < k[1] /\ ~Terminal(task[j])))
    /\ UNCHANGED <<config, main_pc, round, results, join_errors, grouped>>

\* the multi-chain request of the current attempt ends with outcome out
BatchResponse(k, out) ==
    /\ query_mode = "multi"
    /\ task[k].pc = "request"
    /\ Step(k, BatchStep(task[k], out, addresses[k[1]], target_chains))

\* the request of confirm_no_transaction ends with outcome out
ConfirmResponse(k, out) ==
    /\ task[k].pc = "confirm"
    /\ Step(k, ConfirmStep(task[k], out, addresses[k[1]], target_chains))

\* the single-chain request of the current attempt ends with outcome out
SingleResponse(k, out) ==
    /\ query_mode = "single"
    /\ task[k].pc = "request"
    /\ Step(k, get_last_txs_single_chain(task[k], out, addresses[k[1]], target_chains[k[2]]))

\* Wake of a task that gave its permit back for the time of the sleep and does
\* not take one again
Wake_PermitGivenBack(k) ==
    /\ task[k].pc = "sleep"
    /\ task' = [task EXCEPT ![k].pc = "request", ![k].attempt = @ + 1,
                            ![k].seen = @ \cup {task[k].last.kind},
                            ![k].permit = FALSE]
    /\ permits' = permits + 1
    /\ UNCHANGED <<config, main_pc, round, results, join_errors, grouped, overtaken>>

\* tokio::time::sleep returns; `continue` starts the next attempt
Wake(k) ==
    /\ task[k].pc = "sleep"
    /\ task' = [task EXCEPT ![k].pc = "request", ![k].attempt = @ + 1,
                            ![k].seen = @ \cup {task[k].last.kind}]
    /\ UNCHANGED <<config, permits, main_pc, round, results, join_errors, grouped, overtaken>>

\* AllJoined that does not wait for the tasks to end
AllJoined_NoWait == Cardinality(Spawned) = N

\* every address has its task and join_all has all the outputs
AllJoined == Cardinality(Spawned) = N /\ \A k \in Spawned : Terminal(task[k])

\* Joined that also takes what a panicked task had pushed so far
Joined_Partial(k) == task[k].results

\* the output of the JoinHandle of task k as the flatten loop sees it: Ok(vec) -> vec
Joined(k) == IF task[k].pc = "done" THEN task[k].results ELSE <<>>

\* Err(JoinError): the handles of the tasks that panicked
JoinErrors == {k \in Spawned : task[k].pc = "panicked"}

\* RoundResults that walks the handles from the last one to the first
RoundResults_Reversed == Flatten([i \in 1..N |-> Joined(<<N + 1 - i, round>>)])

\* the outputs of join_all, in the order of the handles in `tasks`, flattened
RoundResults == Flatten([i \in 1..N |-> Joined(<<i, round>>)])

\* get_last_txs_batch: join_all(tasks).await and the flatten loop
JoinBatch ==
    /\ query_mode = "multi" /\ main_pc = "query"
    /\ AllJoined
    /\ results' = RoundResults
    /\ join_errors' = JoinErrors
    /\ task' = <<>>
    /\ main_pc' = "group"
    /\ UNCHANGED <<config, permits, round, grouped, overtaken>>

\* main, single mode: join_all(tasks).await of one chain, then the next chain
JoinChain ==
    /\ query_mode = "single" /\ main_pc = "query"
    /\ AllJoined
    /\ results' = results \o RoundResults
    /\ join_errors' = join_errors \cup JoinErrors
    /\ task' = <<>>
    /\ IF round < C THEN round' = round + 1 /\ main_pc' = main_pc
                    ELSE round' = round /\ main_pc' = "group"
    /\ UNCHANGED <<config, permits, grouped, overtaken>>

\* grouped.entry(row.tx_chain).or_insert_with(Vec::new).push(row) over results
GroupBy(rs) ==
    [c \in {rs[i].tx_chain : i \in 1..Len(rs)} |-> SelectSeq(rs, LAMBDA r : r.tx_chain = c)]

Group ==
    /\ main_pc = "group"
    /\ grouped' = GroupBy(results)
    /\ main_pc' = "report"
    /\ UNCHANGED <<config, permits, task, round, results, join_errors, overtaken>>

Next ==
    \/ SpawnBatchTask
    \/ SpawnSingleTask
    \/ \E k \in DOMAIN task : Acquire(k)
    \/ \E k \in DOMAIN task : \E out \in Outcomes(remote, PAGE_SIZE_MULTI) : BatchResponse(k, out)
    \/ \E k \in DOMAIN task : \E out \in Outcomes(remote, PAGE_SIZE_SINGLE) : ConfirmResponse(k, out)
    \/ \E k \in DOMAIN task : \E out \in Outcomes(remote, PAGE_SIZE_SINGLE) : SingleResponse(k, out)
    \/ \E k \in DOMAIN task : Wake(k)
    \/ JoinBatch
    \/ JoinChain
    \/ Group

Spec == Init /\ [][Next]_vars

SpecWorker == InitWorker /\ [][Next]_vars

\* ---- runs that decode every timestamp string of a bounded set
\* characters of the enumerated strings: a digit that is also the head of the
\* prefix, the x of the prefix, a sign, a hex letter, a letter that is no hex digit
TsAlphabet == {"0", "x", "+", "F", "g"}

\* longer strings: a sign behind the prefix, 2^64 (one past u64::MAX), u64::MAX,
\* the last second chrono represents and the second after it
TS_SIGNED      == <<"0","x","+","1","f">>
TS_OVERFLOW    == <<"1","0","0","0","0","0","0","0","0","0","0","0","0","0","0","0","0">>
TS_U64_MAX     == <<"f","f","f","f","f","f","f","f","f","f","f","f","f","f","f","f">>
TS_CHRONO_LAST == <<"0","x","7","7","7","9","a","0","a","6","b","7","f">>
TS_CHRONO_OVER == <<"7","7","7","9","a","0","a","6","b","8","0">>

\* the values of Transaction.timestamp the remote may send
TimestampInputs ==
    SeqsUpTo(TsAlphabet, MaxTsLen)
        \cup {TS_1, TS_2, TS_BAD, TS_SIGNED, TS_OVERFLOW, TS_U64_MAX, TS_CHRONO_LAST,
              TS_CHRONO_OVER}

\* a remote whose one eth transaction carries the timestamp string ts
DecodeRemotes ==
    {[up |-> TRUE, txs |-> {Transaction(HASH_A, ts, "eth")}, faults |-> {}] :
        ts \in TimestampInputs}

\* one worker, target chains eth and bsc, against every such remote
InitDecode ==
    InitWith({"multi", "single"}, {1}, {<<WALLETS[1]>>}, {SubSeq(DEFAULT_CHAINS, 1, 2)},
             DecodeRemotes)

SpecDecode == InitDecode /\ [][Next]_vars

\* ---- scheduling of the tokio runtime
\* every key a task can have
TaskKeys == (1..MaxAddrs) \X (0..MaxChains)

\* the steps of the future of task k: its acquire, the end of its request (send()
\* ends by an answer or by the timeout around it; the body of an answer is taken
\* to arrive), the end of its sleep
TaskNext(k) ==
    /\ k \in DOMAIN task
    /\ \/ Acquire(k)
       \/ \E out \in Outcomes(remote, PAGE_SIZE_MULTI) : BatchResponse(k, out)
       \/ \E out \in Outcomes(remote, PAGE_SIZE_SINGLE) : ConfirmResponse(k, out)
       \/ \E out \in Outcomes(remote, PAGE_SIZE_SINGLE) : SingleResponse(k, out)
       \/ Wake(k)

\* the steps of the future of main
MainNext == SpawnBatchTask \/ SpawnSingleTask \/ JoinBatch \/ JoinChain \/ Group

\* the runtime polls every future that can make progress
Fairness == WF_vars(MainNext) /\ \A k \in TaskKeys : WF_vars(TaskNext(k))

SpecFair == Init /\ [][Next]_vars /\ Fairness

\* ================================================================ claims
CountOf(rows, P(_)) == Cardinality({i \in 1..Len(rows) : P(rows[i])})

ChainsOf(rows) == [i \in 1..Len(rows) |-> rows[i].tx_chain]

RowsOf(chain) == IF chain \in DOMAIN grouped THEN grouped[chain] ELSE <<>>

\* tasks that hold a permit of the semaphore
Admitted == {k \in DOMAIN task : task[k].permit}

\* C1: once the grouped report is built it holds, for every target chain and every
\* address, as many rows as the address has entries in the wallet list (one row per
\* (address, chain) pair of the input), N*C rows in all.
C1_OneRecordPerPair ==
    main_pc = "report" =>
        /\ \A j \in 1..C : \A a \in Range(addresses) :
               CountOf(RowsOf(target_chains[j]), LAMBDA r : r.address = a)
                   = Cardinality({i \in 1..N : addresses[i] = a})
        /\ Len(results) = N * C

\* C2: a task of get_last_txs_batch that has ended has returned a list with one
\* record for each target chain, in target order, and no other record.
C2_WorkerReturnsOnePerChain ==
    query_mode = "multi" =>
        \A k \in DOMAIN task :
            Terminal(task[k]) =>
                /\ task[k].pc = "done"
                /\ ChainsOf(task[k].results) = target_chains

\* C3: in both query modes the number of tasks that hold a permit never exceeds
\* the ceiling K.
C3_AdmittedAtMostK == Cardinality(Admitted) <= concurrency

\* C3 witness: the gate is full, K >= 1 tasks are admitted and another one waits.
C3_Witness ==
    /\ concurrency >= 1
    /\ Cardinality(Admitted) = concurrency
    /\ \E k \in DOMAIN task : task[k].pc = "waiting"

\* ---- helpers of the claims about one worker
\* the response holds a transaction of chain c with a non-empty hash
Covered(txs, c) == \E i \in 1..Len(txs) : txs[i].blockchain = c /\ txs[i].hash # ""

\* the first transaction of chain c in response order
FirstOfChain(txs, c) ==
    txs[CHOOSE i \in 1..Len(txs) :
            /\ txs[i].blockchain = c
            /\ \A j \in 1..(i - 1) : txs[j].blockchain # c]

\* the first transaction of chain c with a non-empty hash, in response order
FirstHit(txs, c) ==
    txs[CHOOSE i \in 1..Len(txs) :
            /\ txs[i].blockchain = c /\ txs[i].hash # ""
            /\ \A j \in 1..(i - 1) : ~(txs[j].blockchain = c /\ txs[j].hash # "")]

\* the chains a task has to answer for
ChainsOfTask(k) == IF query_mode = "multi" THEN target_chains ELSE <<target_chains[k[2]]>>

\* attempts 1..4 ended in retryable errors and attempt 5 brought transactions
FifthAttemptSucceeded(t) ==
    /\ t.attempt = MAX_RETRIES
    /\ t.last.kind = "Ok" /\ t.last.txs # <<>>
    /\ t.seen \subseteq Faults

\* C4: a batch task whose multi-chain request succeeded with transactions has
\* called confirm_no_transaction exactly once for every target chain the response
\* does not cover (no transaction of the chain with a non-empty hash), and never
\* for a chain it covers, by the time the task ends.
C4_FallbackOncePerMissingChain ==
    query_mode = "multi" =>
        \A k \in DOMAIN task :
            (Terminal(task[k]) /\ task[k].last.kind = "Ok" /\ task[k].last.txs # <<>>) =>
                \A j \in 1..C :
                    CountOf(task[k].confirms, LAMBDA e : e.chain = target_chains[j])
                        = IF Covered(task[k].last.txs, target_chains[j]) THEN 0 ELSE 1

\* C5 (as claimed): after four retryable errors and a fifth attempt that returns
\* transactions, every record the task returns carries a transaction of attempt 5
\* and none is an error sentinel.
C5_Original_NoErrorSentinelAfterSuccess ==
    \A k \in DOMAIN task :
        (task[k].pc = "done" /\ FifthAttemptSucceeded(task[k])) =>
            \A i \in 1..Len(task[k].results) :
                /\ task[k].results[i].tx_hash \notin ErrorSentinels
                /\ \E n \in 1..Len(task[k].last.txs) :
                       task[k].last.txs[n].hash = task[k].results[i].tx_hash

\* C5 (amended): after four retryable errors and a fifth attempt that returns
\* transactions, a single-chain task that returns gives the first transaction of
\* attempt 5, and a batch task that returns gives every target chain that
\* attempt 5 covers (a transaction of that chain with a non-empty hash) the first
\* such transaction, hash and decoded time; only chains attempt 5 does not cover
\* carry anything else (the outcome of confirm_no_transaction).
C5_FifthAttemptRecords ==
    \A k \in DOMAIN task :
        (task[k].pc = "done" /\ FifthAttemptSucceeded(task[k])) =>
            LET t == task[k]
                hit(c) == IF query_mode = "multi" THEN FirstHit(t.last.txs, c)
                                                  ELSE t.last.txs[1]
            IN  /\ ChainsOf(t.results) = ChainsOfTask(k)
                /\ \A i \in 1..Len(t.results) :
                       (query_mode = "multi" => Covered(t.last.txs, t.results[i].tx_chain)) =>
                           /\ t.results[i].tx_hash = hit(t.results[i].tx_chain).hash
                           /\ t.results[i].tx_time =
                                  format_timestamp(hit(t.results[i].tx_chain).timestamp)
                           /\ t.results[i].address = addresses[k[1]]

\* C5 witness: a batch task returned after a successful fifth attempt that covers
\* its first target chain.
C5_Witness ==
    \E k \in DOMAIN task :
        /\ query_mode = "multi"
        /\ task[k].pc = "done" /\ FifthAttemptSucceeded(task[k])
        /\ Covered(task[k].last.txs, target_chains[1])
        /\ task[k].seen = {"TransportError"}

\* C6: when every attempt of a retry loop ends in the same error kind X the loop
\* makes exactly MAX_RETRIES attempts (it sleeps and retries below the ceiling),
\* then the task returns, as a value, one record per chain it answers for, each
\* with the sentinel of X and the time "N/A".
C6_SameErrorExhausts ==
    \A k \in DOMAIN task :
        LET t == task[k] IN
        /\ t.attempt <= MAX_RETRIES
        /\ (t.pc # "request" /\ t.last.kind \in Faults /\ t.seen \subseteq {t.last.kind}) =>
               IF t.attempt < MAX_RETRIES THEN t.pc = "sleep"
               ELSE /\ t.pc = "done"
                    /\ ChainsOf(t.results) = ChainsOfTask(k)
                    /\ \A i \in 1..Len(t.results) :
                           /\ t.results[i].tx_time = NA
                           /\ t.last.kind = "Timeout" => t.results[i].tx_hash = TIMED_OUT
                           /\ t.last.kind = "TransportError" =>
                                  t.results[i].tx_hash = NETWORK_ERR
                           /\ t.last.kind = "MalformedResponse" =>
                                  t.results[i].tx_hash = PARSE_FAILED

\* C6 witness: a task returned after five timeouts.
C6_Witness ==
    \E k \in DOMAIN task :
        /\ task[k].pc = "done" /\ task[k].attempt = MAX_RETRIES
        /\ task[k].last.kind = "Timeout" /\ task[k].seen = {"Timeout"}

\* C7: a batch task whose multi-chain request failed for good has given every
\* target chain the same error sentinel and has never called
\* confirm_no_transaction; no fallback request is in flight after an error.
C7_TerminalFailureBroadcast ==
    query_mode = "multi" =>
        \A k \in DOMAIN task :
            LET t == task[k] IN
            (t.last.kind \in Faults /\ t.pc \notin {"request", "sleep"}) =>
                /\ t.pc = "done"
                /\ t.attempt = MAX_RETRIES
                /\ t.confirms = <<>>
                /\ ChainsOf(t.results) = target_chains
                /\ \A i \in 1..Len(t.results) :
                       /\ t.results[i].tx_hash \in ErrorSentinels
                       /\ t.results[i].tx_hash = t.results[1].tx_hash
                       /\ t.results[i].address = addresses[k[1]]

\* C7 witness: a batch task with two target chains ended on a transport error.
C7_Witness ==
    \E k \in DOMAIN task :
        /\ query_mode = "multi" /\ C = 2
        /\ task[k].pc = "done" /\ task[k].last.kind = "TransportError"

\* C8 (as claimed): by_chain holds, for every chain, the first transaction of that
\* chain in response order.
C8_Original_FirstEncounteredWins ==
    query_mode = "multi" =>
        \A k \in DOMAIN task :
            task[k].last.kind = "Ok" =>
                \A c \in DOMAIN task[k].by_chain :
                    task[k].by_chain[c] = FirstOfChain(task[k].last.txs, c)

\* C8 (amended): by_chain holds exactly the chains of which the response has a
\* transaction with a non-empty hash, each with the first such transaction in
\* response order (transactions with an empty hash are skipped, later ones of a
\* chain already kept are discarded), and the record of a covered target chain
\* carries the hash of that transaction.
C8_FirstNonEmptyHashWins ==
    query_mode = "multi" =>
        \A k \in DOMAIN task :
            LET t == task[k] IN
            t.last.kind = "Ok" =>
                /\ DOMAIN t.by_chain =
                       {t.last.txs[i].blockchain : i \in {n \in 1..Len(t.last.txs) :
                                                             t.last.txs[n].hash # ""}}
                /\ \A c \in DOMAIN t.by_chain : t.by_chain[c] = FirstHit(t.last.txs, c)
                /\ \A i \in 1..Len(t.results) :
                       Covered(t.last.txs, t.results[i].tx_chain) =>
                           t.results[i].tx_hash = FirstHit(t.last.txs, t.results[i].tx_chain).hash

\* C8 witness: a response with two eth transactions of different hashes; the task
\* returned the first one for eth.
C8_Witness ==
    \E k \in DOMAIN task :
        /\ query_mode = "multi"
        /\ task[k].last = Outcome("Ok", <<TxEthA, TxEthB>>)
        /\ task[k].pc = "done"
        /\ task[k].results[1].tx_hash = HASH_A

\* C9: a task holds a permit exactly while it is between its acquire and its end:
\* during every request, backoff sleep and fallback call, and no longer once it
\* has returned or panicked; the semaphore has K minus the held permits.
C9_PermitHeldWhileRunning ==
    /\ \A k \in DOMAIN task :
           task[k].permit <=> task[k].pc \in {"request", "sleep", "confirm"}
    /\ permits = concurrency - Cardinality(Admitted)

\* C9 witness: a task panicked and every permit is back in the semaphore.
C9_Witness ==
    /\ \E k \in DOMAIN task : task[k].pc = "panicked" /\ task[k].attempt >= 1
    /\ permits = concurrency

\* ---- helpers of the claims about the join
Distinct(s) == \A i, j \in 1..Len(s) : s[i] = s[j] => i = j

RoundOf(j) == IF query_mode = "multi" THEN 0 ELSE j

\* C10 (as claimed): with distinct addresses, no record of the address of a task
\* that panicked is in the flat result.
C10_Original_AddressAbsent ==
    (main_pc = "report" /\ Distinct(addresses)) =>
        \A k \in join_errors :
            CountOf(results, LAMBDA r : r.address = addresses[k[1]]) = 0

\* C10 (amended): after the join the flat result holds, for every address and
\* chain, one record per task that answered for the pair and returned, and none
\* for a task that panicked: a batch task that panics loses all records of its
\* address, a single-chain task that panics loses the record of its own
\* (address, chain) pair only; the records of the other tasks are all there and
\* the run goes on to the grouping.
C10_PanickedTaskRecordsAbsent ==
    main_pc \in {"group", "report"} =>
        \A j \in 1..C : \A a \in Range(addresses) :
            CountOf(results, LAMBDA r : r.address = a /\ r.tx_chain = target_chains[j])
                = Cardinality({i \in 1..N : addresses[i] = a /\ <<i, RoundOf(j)>> \notin join_errors})

\* C10 witness: the report was grouped although a task had panicked, and records
\* of tasks that returned are in it.
C10_Witness ==
    /\ main_pc = "report"
    /\ join_errors # {}
    /\ results # <<>>
    /\ grouped # <<>>

\* ---- termination
\* C11: under fair scheduling, for every ceiling K the configuration accepts and
\* every number of addresses, every run reaches the aggregation: all spawned tasks
\* get a permit and end, the join completes and the report is grouped.
C11_RunReachesAggregation == <>(main_pc = "report")

\* C11, the part that holds: with a ceiling K >= 1 every fair run reaches the
\* aggregation with every permit back in the semaphore.
C11_PositiveCeilingTerminates ==
    (concurrency >= 1) => <>(main_pc = "report" /\ permits = concurrency)

\* C11: the run that is stuck: ceiling 0, every task spawned, each one waiting at
\* semaphore.acquire(), main waiting at join_all.
C11_StuckAtGate ==
    /\ concurrency = 0 /\ N >= 1
    /\ Cardinality(Spawned) = N
    /\ \A k \in Spawned : task[k].pc = "waiting"
    /\ ~ENABLED Next

\* ---- order of the report
\* the addresses of the tasks of chain j that returned, in input order
SurvivorsOf(j) ==
    LET idx == SelectSeq([i \in 1..N |-> i], LAMBDA i : <<i, RoundOf(j)>> \notin join_errors)
    IN  [n \in 1..Len(idx) |-> addresses[idx[n]]]

AddressesOf(rows) == [i \in 1..Len(rows) |-> rows[i].address]

\* C12: in the grouped report the rows of every target chain carry the addresses
\* of the tasks that returned, in the order of the wallet list, in both query
\* modes and whatever the order in which the tasks ended.
C12_GroupedInInputOrder ==
    main_pc = "report" =>
        \A j \in 1..C : AddressesOf(RowsOf(target_chains[j])) = SurvivorsOf(j)

\* C12 witness: a report with the rows of two different addresses for a chain,
\* built after a task ended before a task spawned ahead of it.
C12_Witness ==
    /\ main_pc = "report"
    /\ overtaken
    /\ \E j \in 1..C : LET rows == RowsOf(target_chains[j]) IN
           Len(rows) = 2 /\ rows[1].address # rows[2].address

\* ---- Confirmation Fallback
\* position of chain c in the target list
ChainIndex(c) == CHOOSE j \in 1..C : target_chains[j] = c

\* the call of confirm_no_transaction found a transaction
Found(e) == e.kind = "Ok" /\ e.txs # <<>>

\* the call has been answered and found no transaction
NotFound(e) == e.kind # "InFlight" /\ ~Found(e)

\* C13 (as claimed): every answered call of confirm_no_transaction that found no
\* transaction (none listed, malformed body, transport error, timeout) gave its
\* chain the record with the "no transaction" sentinel.
C13_Original_NonFoundIsNoTransaction ==
    query_mode = "multi" =>
        \A k \in DOMAIN task : \A i \in 1..Len(task[k].confirms) :
            LET e == task[k].confirms[i] IN
            NotFound(e) =>
                task[k].results[ChainIndex(e.chain)]
                    = QueryResult(addresses[k[1]], NO_TX, NA, e.chain)

\* C13 (amended): every answered call of confirm_no_transaction that found no
\* transaction gave its chain a record with the time "N/A" and the sentinel of
\* its own outcome: "no transaction" for an empty list or an absent result, parse
\* failure for a malformed body, network error for a transport error, timeout
\* for a timeout. A call that found a transaction gave the chain the hash and the
\* decoded time of the first transaction of its response, unless that hash is
\* shorter than HASH_PREFIX_LEN: then the task panicked and the chain has no record.
C13_FallbackRecordCarriesOutcome ==
    query_mode = "multi" =>
        \A k \in DOMAIN task : \A i \in 1..Len(task[k].confirms) :
            LET t == task[k]
                e == t.confirms[i]
                j == ChainIndex(e.chain)
            IN  /\ NotFound(e) =>
                       /\ Len(t.results) >= j
                       /\ t.results[j] = QueryResult(addresses[k[1]],
                              CASE e.kind \in {"Ok", "EmptyResult"} -> NO_TX
                                [] e.kind = "MalformedResponse" -> PARSE_FAILED
                                [] e.kind = "TransportError" -> NETWORK_ERR
                                [] e.kind = "Timeout" -> TIMED_OUT,
                              NA, e.chain)
                /\ Found(e) =>
                       IF SliceOk(e.txs[1].hash)
                       THEN /\ Len(t.results) >= j
                            /\ t.results[j] = QueryResult(addresses[k[1]], e.txs[1].hash,
                                                  format_timestamp(e.txs[1].timestamp), e.chain)
                       ELSE t.pc = "panicked" /\ i = Len(t.confirms) /\ Len(t.results) = j - 1

\* C13 witness: a batch task returned after a call of confirm_no_transaction that
\* timed out and one that found a transaction.
C13_Witness ==
    \E k \in DOMAIN task :
        /\ task[k].pc = "done"
        /\ \E i \in 1..Len(task[k].confirms) : task[k].confirms[i].kind = "Timeout"
        /\ \E i \in 1..Len(task[k].confirms) : Found(task[k].confirms[i])

\* ---- the retry loops
\* the latest attempt of t has been answered (t is not in a request of the loop)
Answered(t) == t.attempt >= 1 /\ t.pc # "request"

\* a parsed response with a result that lists no transaction
ZeroTxs(out) == out.kind = "Ok" /\ out.txs = <<>>

\* C14 (as claimed): in both retry loops a zero-transaction response sends the
\* task to the sleep before one more attempt when it answers attempt 1, and on any
\* later attempt ends the task with the "no transaction" record for every chain
\* it answers for.
C14_Original_ReconfirmOnFirstAttemptOnly ==
    \A k \in DOMAIN task :
        LET t == task[k] IN
        (Answered(t) /\ ZeroTxs(t.last)) =>
            IF t.attempt = 1 THEN t.pc = "sleep"
            ELSE /\ t.pc = "done"
                 /\ t.results = Broadcast(addresses[k[1]], ChainsOfTask(k), NO_TX)

\* C14 (amended): the single-chain loop sleeps and makes attempt 2 after a
\* zero-transaction response to attempt 1 (no other attempt follows a
\* zero-transaction response) and on any later attempt returns the "no
\* transaction" record at once. The multi-chain loop never repeats its request
\* after a zero-transaction response, on attempt 1 or later: it leaves the loop and
\* calls confirm_no_transaction for the target chains in order, one call per
\* chain when it returns.
C14_ZeroTransactionsPerMode ==
    \A k \in DOMAIN task :
        LET t == task[k] IN
        /\ (query_mode = "single" /\ Answered(t) /\ ZeroTxs(t.last)) =>
               IF t.attempt = 1 THEN t.pc = "sleep"
               ELSE /\ t.pc = "done"
                    /\ t.results = <<QueryResult(addresses[k[1]], NO_TX, NA,
                                                 target_chains[k[2]])>>
        /\ (query_mode = "single" /\ t.pc = "request" /\ ZeroTxs(t.last)) => t.attempt = 2
        /\ (query_mode = "multi" /\ ZeroTxs(t.last)) =>
               /\ t.pc \in {"confirm", "done", "panicked"}
               /\ t.by_chain = <<>>
               /\ t.confirms # <<>>
               /\ [i \in 1..Len(t.confirms) |-> t.confirms[i].chain]
                      = SubSeq(target_chains, 1, Len(t.confirms))
               /\ t.pc = "done" => Len(t.confirms) = C

\* C14 witness: a single-chain task returned "no transaction" on an attempt after
\* the second, its earlier attempts having failed.
C14_Witness ==
    \E k \in DOMAIN task :
        /\ query_mode = "single"
        /\ task[k].pc = "done" /\ ZeroTxs(task[k].last)
        /\ task[k].attempt > 2
        /\ task[k].seen \subseteq Faults

\* C14: a single-chain task is in attempt 2 because attempt 1 listed no transaction.
C14_ReconfirmingAfterFirstAttempt ==
    \E k \in DOMAIN task :
        /\ query_mode = "single"
        /\ task[k].pc = "request" /\ task[k].attempt = 2 /\ ZeroTxs(task[k].last)

\* C15: in both query modes a task that returned on a parsed response without
\* `result` gave every (address, chain) pair it answers for the "no data"
\* sentinel, not the "no transaction" sentinel.
C15_AbsentResultIsNoData ==
    \A k \in DOMAIN task :
        LET t == task[k] IN
        (t.pc = "done" /\ t.last.kind = "EmptyResult") =>
            t.results = Broadcast(addresses[k[1]], ChainsOfTask(k), NO_DATA)

\* C15, multi-chain mode alone: the batch task never repeats the request after a
\* response without `result` and gives every target chain "no data".
C15_BatchAbsentResultIsNoData ==
    query_mode = "multi" =>
        \A k \in DOMAIN task :
            LET t == task[k] IN
            t.last.kind = "EmptyResult" =>
                /\ t.pc = "done" /\ t.confirms = <<>>
                /\ t.results = Broadcast(addresses[k[1]], target_chains, NO_DATA)

\* C15: the single-chain task that returned "no transaction" for a response
\* without `result`.
C15_SingleAbsentResultIsNoTransaction ==
    \E k \in DOMAIN task :
        /\ query_mode = "single"
        /\ task[k].pc = "done" /\ task[k].last.kind = "EmptyResult"
        /\ task[k].results[1].tx_hash = NO_TX

\* a parsed response with a result that lists transactions
HasTxs(out) == out.kind = "Ok" /\ out.txs # <<>>

\* C16: once an attempt of a retry loop has been answered with transactions the
\* task makes no further attempt of that request and does not sleep: the
\* single-chain task has ended, the batch task has ended or is in a call of
\* confirm_no_transaction, and no step of a task raises its attempt number or
\* takes it back to the request or the sleep.
C16_SuccessEndsTheLoop ==
    [][\A k \in DOMAIN task :
          HasTxs(task[k].last) =>
              /\ task[k].pc \in (IF query_mode = "single" THEN {"done", "panicked"}
                                  ELSE {"confirm", "done", "panicked"})
              /\ k \in DOMAIN task' =>
                     /\ task'[k].attempt = task[k].attempt
                     /\ task'[k].last = task[k].last
                     /\ task'[k].pc \notin {"request", "sleep", "waiting"}]_vars

\* C16 witness: a task returned on transactions that came with its third attempt
\* or a later one.
C16_Witness ==
    \E k \in DOMAIN task :
        /\ HasTxs(task[k].last)
        /\ task[k].pc = "done"
        /\ task[k].attempt >= 3

\* ---- single-chain mode
\* C17: in single-chain mode the tasks that exist are tasks of the chain in hand,
\* at most one per address and at most K of them admitted; main moves to the next
\* chain only by one step from chain i to chain i+1, taken when chain i has
\* exactly one task per address and every one of them has ended, and it leaves no
\* task behind: no task of chain i+1 exists or sends a request before that.
C17_ChainsOneAfterAnother ==
    [][query_mode = "single" =>
          /\ \A k \in DOMAIN task' : k[2] = round' /\ k[1] \in 1..N
          /\ Cardinality({k \in DOMAIN task' : task'[k].permit}) <= concurrency
          /\ round' # round =>
                 /\ round' = round + 1
                 /\ {k[1] : k \in DOMAIN task} = 1..N
                 /\ \A k \in DOMAIN task : k[2] = round /\ Terminal(task[k])
                 /\ task' = <<>>
                 /\ Len(results') = Len(results) + Cardinality({k \in DOMAIN task :
                                                                   task[k].pc = "done"})]_vars

\* C17 witness: the second chain is in hand with the ceiling 1: the records of
\* the first chain are in the flat list, one task of the second chain is in its
\* request and the other one waits for the permit.
C17_Witness ==
    /\ query_mode = "single" /\ round = 2 /\ concurrency = 1
    /\ Len(results) = 2
    /\ \A i \in 1..Len(results) : results[i].tx_chain = target_chains[1]
    /\ \E k \in DOMAIN task : task[k].pc = "request"
    /\ \E k \in DOMAIN task : task[k].pc = "waiting"

\* ---- requests in flight
\* tasks with a request outstanding: the request of an attempt of the retry loop
\* or the request of confirm_no_transaction
InFlight == {k \in DOMAIN task : task[k].pc \in {"request", "confirm"}}

\* C18: every task with a request outstanding holds a permit, it has one request
\* outstanding (the request of an attempt or the request of a fallback call, never
\* both), and the number of requests outstanding over all tasks never exceeds K.
C18_RequestsInFlightAtMostK ==
    /\ InFlight \subseteq Admitted
    /\ Cardinality(InFlight) <= concurrency
    /\ \A k \in DOMAIN task :
           task[k].pc = "confirm" =>
               /\ task[k].confirms # <<>>
               /\ \A i \in 1..Len(task[k].confirms) :
                      task[k].confirms[i].kind = "InFlight" <=> i = Len(task[k].confirms)
    /\ \A k \in DOMAIN task :
           task[k].pc # "confirm" =>
               \A i \in 1..Len(task[k].confirms) : task[k].confirms[i].kind # "InFlight"

\* C18 witness: with K = 2 two requests are outstanding, a multi-chain request of
\* one task and a fallback request of another.
C18_Witness ==
    /\ concurrency = 2
    /\ \E k \in DOMAIN task : task[k].pc = "request"
    /\ \E k \in DOMAIN task : task[k].pc = "confirm"

\* ---- error kinds
\* the sentinel the report shows for an error kind
SentinelOfKind(kind) ==
    IF kind = "Timeout" THEN TIMED_OUT
    ELSE IF kind = "TransportError" THEN NETWORK_ERR
    ELSE PARSE_FAILED

\* C19: a task that returned on an error of its retry loop did so on attempt
\* MAX_RETRIES, and every record it returned carries the sentinel of the error
\* kind of that last attempt, whatever kinds the earlier attempts ended in: the
\* sentinel of another kind seen earlier is in none of its records.
C19_LastErrorKindDecides ==
    \A k \in DOMAIN task :
        LET t == task[k] IN
        (t.pc = "done" /\ t.last.kind \in Faults) =>
            /\ t.attempt = MAX_RETRIES
            /\ Len(t.results) = Len(ChainsOfTask(k))
            /\ \A i \in 1..Len(t.results) :
                   /\ t.results[i].tx_hash = SentinelOfKind(t.last.kind)
                   /\ \A x \in (t.seen \cap Faults) \ {t.last.kind} :
                          t.results[i].tx_hash # SentinelOfKind(x)

\* C19 witness: a task returned on a timeout of attempt 5 after earlier attempts
\* that ended in a transport error and in a malformed response.
C19_Witness ==
    \E k \in DOMAIN task :
        /\ task[k].pc = "done" /\ task[k].attempt = MAX_RETRIES
        /\ task[k].last.kind = "Timeout"
        /\ {"TransportError", "MalformedResponse"} \subseteq task[k].seen
        /\ task[k].results[1].tx_hash = TIMED_OUT

\* ---- requests of a batch task
\* C20: a batch task sends at most MAX_RETRIES multi-chain requests (its attempt
\* number) and at most C requests of confirm_no_transaction; a fallback request
\* is sent only from a step that handles a parsed multi-chain response or the
\* fallback before it, and once a task has sent one it never sends a multi-chain
\* request or sleeps again.
C20_RequestBudget ==
    [][query_mode = "multi" =>
          \A k \in DOMAIN task' :
              /\ task'[k].attempt <= MAX_RETRIES
              /\ Len(task'[k].confirms) <= C
              /\ k \in DOMAIN task =>
                     /\ task[k].confirms # <<>> =>
                            /\ task'[k].attempt = task[k].attempt
                            /\ task'[k].pc \notin {"request", "sleep", "waiting"}
                     /\ Len(task'[k].confirms) # Len(task[k].confirms) =>
                            /\ Len(task'[k].confirms) = Len(task[k].confirms) + 1
                            /\ task[k].pc \in {"request", "confirm"}
                            /\ task'[k].pc = "confirm"
                            /\ task'[k].last.kind = "Ok"]_vars

\* C20 witness: a batch task with two target chains returned after MAX_RETRIES
\* multi-chain requests and one fallback request for each chain.
C20_Witness ==
    \E k \in DOMAIN task :
        /\ query_mode = "multi" /\ C = 2
        /\ task[k].pc = "done"
        /\ task[k].attempt = MAX_RETRIES
        /\ Len(task[k].confirms) = C

\* ---- the semaphore at rest
\* no task is between its acquire and its end
NoTaskRunning == \A k \in DOMAIN task : task[k].pc \in {"waiting", "done", "panicked"}

\* C21: the semaphore never holds more than K permits nor fewer than none, and
\* whenever no task is running it holds all K: before the first acquire, when
\* every task of the batch or of a chain has returned or panicked, after the join
\* of multi-chain mode, between the chains of single-chain mode and after the
\* join of the last chain.
C21_AllPermitsBackAtRest ==
    /\ permits \in 0..concurrency
    /\ NoTaskRunning => permits = concurrency
    /\ main_pc \in {"group", "report"} => (task = <<>> /\ permits = concurrency)

\* C21 witness: single-chain mode between two chains: the tasks of the first
\* chain have been joined, some returned and one panicked, the tasks of the
\* second chain are not spawned yet and all K >= 1 permits are in the semaphore.
C21_Witness ==
    /\ query_mode = "single" /\ round = 2 /\ task = <<>>
    /\ concurrency >= 1 /\ permits = concurrency
    /\ join_errors # {} /\ results # <<>>

\* ---- records and target chains
\* C22: the records of a task carry the address of the task and, in target order,
\* the chains the task answers for, and the grouped report has rows of target
\* chains and listed addresses only. In a batch task, whatever transactions of
\* chains outside the target list the response holds: as soon as the per-chain
\* loop has reached a target chain, that chain has had exactly one call of
\* confirm_no_transaction if the response has no transaction tagged with it that
\* has a hash, and none if it has one, whose hash is then the hash of the record.
C22_RecordsOfTargetChainsOnly ==
    /\ \A k \in DOMAIN task :
           LET t == task[k] IN
           /\ Len(t.results) <= Len(ChainsOfTask(k))
           /\ \A i \in 1..Len(t.results) :
                  /\ t.results[i].address = addresses[k[1]]
                  /\ t.results[i].tx_chain = ChainsOfTask(k)[i]
           /\ (query_mode = "multi" /\ t.last.kind = "Ok") =>
                  \A j \in 1..C :
                      t.ci >= j =>
                          IF Covered(t.last.txs, target_chains[j])
                          THEN /\ CountOf(t.confirms, LAMBDA e : e.chain = target_chains[j]) = 0
                               /\ Len(t.results) >= j =>
                                      t.results[j].tx_hash
                                          = FirstHit(t.last.txs, target_chains[j]).hash
                          ELSE CountOf(t.confirms, LAMBDA e : e.chain = target_chains[j]) = 1
    /\ main_pc = "report" =>
           /\ DOMAIN grouped \subseteq Range(target_chains)
           /\ \A c \in DOMAIN grouped : \A i \in 1..Len(grouped[c]) :
                  /\ grouped[c][i].tx_chain = c
                  /\ grouped[c][i].address \in Range(addresses)

\* C22 witness: a batch task with two target chains returned on a response that
\* holds a transaction of a chain outside the target list; that chain is in
\* by_chain, the task made a fallback call and returned one record per target chain.
C22_Witness ==
    \E k \in DOMAIN task :
        /\ query_mode = "multi" /\ C = 2
        /\ task[k].pc = "done"
        /\ DOMAIN task[k].by_chain \ Range(target_chains) # {}
        /\ task[k].confirms # <<>>
        /\ Len(task[k].results) = C

\* ---- timestamp decoding
\* s without the prefix 0x, when it has one
HexBody(s) == IF Len(s) >= 2 /\ SubSeq(s, 1, 2) = <<"0", "x">> THEN SubSeq(s, 3, Len(s)) ELSE s

\* s is a hexadecimal number, with or without the prefix: one hex digit or more
IsHexNumber(s) == HexBody(s) # <<>> /\ \A i \in 1..Len(HexBody(s)) : HexBody(s)[i] \in HexDigits

\* the calls of format_timestamp whose result is in a record: <<argument, result>>
Decoded ==
    UNION {
        LET t == task[k] IN
        (IF query_mode = "single" /\ t.pc = "done" /\ HasTxs(t.last)
         THEN {<<t.last.txs[1].timestamp, t.results[1].tx_time>>} ELSE {})
        \cup
        (IF query_mode = "multi" /\ t.last.kind = "Ok"
         THEN {<<FirstHit(t.last.txs, target_chains[j]).timestamp, t.results[j].tx_time>> :
                  j \in {n \in 1..Len(t.results) : Covered(t.last.txs, target_chains[n])}}
         ELSE {})
        \cup
        {<<t.confirms[i].txs[1].timestamp, t.results[ChainIndex(t.confirms[i].chain)].tx_time>> :
            i \in {n \in 1..Len(t.confirms) :
                      Found(t.confirms[n]) /\ Len(t.results) >= ChainIndex(t.confirms[n].chain)}}
        : k \in DOMAIN task}

\* C23: every call of format_timestamp returns a display string (a local time
\* or one of the two failure strings), and on every argument that is not a
\* hexadecimal number, with or without the prefix 0x, it returns the "parse
\* failure" string.
C23_NonHexIsParseFailure ==
    \A p \in Decoded :
        /\ p[2] \in {TIME_PARSE_FAILED, TIME_FORMAT_ERROR, LocalDisplay(ParsedDigits(HexBody(p[1])))}
        /\ ~IsHexNumber(p[1]) => p[2] = TIME_PARSE_FAILED

\* C23, the part that holds: the result is the "parse failure" string on every
\* argument whose body is empty, is a lone sign, or holds a character that is
\* neither a hex digit nor a sign in the first place; it is a failure string or
\* a local time on every argument.
C23_ForeignCharacterIsParseFailure ==
    \A p \in Decoded :
        LET b == HexBody(p[1]) IN
        /\ p[2] \in {TIME_PARSE_FAILED, TIME_FORMAT_ERROR, LocalDisplay(ParsedDigits(b))}
        /\ (\/ b = <<>>
            \/ b = <<"+">>
            \/ \E i \in 1..Len(b) : b[i] \notin HexDigits /\ ~(i = 1 /\ b[i] = "+")) =>
               p[2] = TIME_PARSE_FAILED

\* C23: a record whose time is a local time decoded from a string with a sign,
\* which is not a hexadecimal number.
C23_SignedStringDecoded ==
    \E p \in Decoded :
        /\ ~IsHexNumber(p[1])
        /\ p[2] \notin {TIME_PARSE_FAILED, TIME_FORMAT_ERROR}

====
